---- MODULE Spec2Model ----
(***************************************************************************)
(* Model of nova/adminclient.py: the NovaAdminClient facade, the three     *)
(* result classes it decodes responses into (UserInfo, ProjectInfo,        *)
(* HostInfo) and the query transport it calls (boto's get_object,          *)
(* get_list and get_status).                                               *)
(*                                                                         *)
(* Python values are tagged records: None, str (a sequence of one-         *)
(* character strings), bytes (a sequence of 0..255), bool, an object (its  *)
(* class and its attribute dictionary), a list and a connection.           *)
(*                                                                         *)
(* Response texts are ASCII, on which Python's str() keeps the characters, *)
(* and the payload of a `file` element is canonical base64, on which       *)
(* base64.b64decode is defined.                                            *)
(***************************************************************************)
EXTENDS Integers, Sequences, FiniteSets, TLC

VARIABLES self, pc, call, reply, sent, made, result

vars == <<self, pc, call, reply, sent, made, result>>

(* ------------------------------ bounds -------------------------------- *)

\* the longest single-object response, in element-end events
MaxEvents == 3
\* the most top-level children of a list response
MaxItems == 2

\* port=8773
Port == 8773

(* --------------------------- Python values ---------------------------- *)

None == [t |-> "None"]
Str(s) == [t |-> "str", s |-> s]
Bytes(b) == [t |-> "bytes", b |-> b]
Bool(b) == [t |-> "bool", v |-> b]
Obj(cls, attrs) == [t |-> "obj", cls |-> cls, attrs |-> attrs]
List(items) == [t |-> "list", items |-> items]
ConnV(c) == [t |-> "conn", c |-> c]

Return(v) == [kind |-> "return", val |-> v]
Raise(e) == [kind |-> "raise", err |-> e]

\* setattr(obj, name, value) on the attribute dictionary
SetAttr(attrs, name, value) ==
    [a \in (DOMAIN attrs) \cup {name} |-> IF a = name THEN value ELSE attrs[a]]

(* ------------------------------ base64 -------------------------------- *)

B64Chars ==
    << "A","B","C","D","E","F","G","H","I","J","K","L","M",
       "N","O","P","Q","R","S","T","U","V","W","X","Y","Z",
       "a","b","c","d","e","f","g","h","i","j","k","l","m",
       "n","o","p","q","r","s","t","u","v","w","x","y","z",
       "0","1","2","3","4","5","6","7","8","9","+","/" >>

B64Index(c) == (CHOOSE i \in 1..Len(B64Chars) : B64Chars[i] = c) - 1

B64Sextet(c) == IF c = "=" THEN 0 ELSE B64Index(c)

B64Quad(q) ==
    LET n == B64Sextet(q[1]) * 262144 + B64Sextet(q[2]) * 4096
             + B64Sextet(q[3]) * 64 + B64Sextet(q[4])
        pad == IF q[3] = "=" THEN 2 ELSE IF q[4] = "=" THEN 1 ELSE 0
    IN  SubSeq(<< n \div 65536, (n \div 256) % 256, n % 256 >>, 1, 3 - pad)

RECURSIVE b64decode(_)
b64decode(s) ==
    IF Len(s) = 0 THEN << >>
    ELSE B64Quad(SubSeq(s, 1, 4)) \o b64decode(SubSeq(s, 5, Len(s)))

\* str(value) of an ASCII text
PyStr(value) == value

(* --------------------------- result classes --------------------------- *)

UserInfo_init(connection) ==
    Obj("UserInfo",
        [a \in {"connection", "username", "endpoint"} |->
            IF a = "connection" THEN connection ELSE None])

\* mutant: a tag with no mapping is set as an attribute
UserInfo_endElement_dynamic(o, name, value, connection) ==
    IF name = "file"
    THEN Obj(o.cls, SetAttr(o.attrs, "file", Bytes(b64decode(PyStr(value)))))
    ELSE Obj(o.cls, SetAttr(o.attrs, name, Str(PyStr(value))))

UserInfo_endElement(o, name, value, connection) ==
    IF name = "username"
    THEN Obj(o.cls, SetAttr(o.attrs, "username", Str(PyStr(value))))
    ELSE IF name = "file"
    THEN Obj(o.cls, SetAttr(o.attrs, "file", Bytes(b64decode(PyStr(value)))))
    ELSE IF name = "accesskey"
    THEN Obj(o.cls, SetAttr(o.attrs, "accesskey", Str(PyStr(value))))
    ELSE IF name = "secretkey"
    THEN Obj(o.cls, SetAttr(o.attrs, "secretkey", Str(PyStr(value))))
    ELSE o

ProjectInfo_init(connection) ==
    Obj("ProjectInfo",
        [a \in {"connection", "projectname", "endpoint"} |->
            IF a = "connection" THEN connection ELSE None])

ProjectInfo_endElement(o, name, value, connection) ==
    Obj(o.cls, SetAttr(o.attrs, name, Str(PyStr(value))))

HostInfo_init(connection) ==
    Obj("HostInfo",
        [a \in {"connection", "hostname"} |->
            IF a = "connection" THEN connection ELSE None])

HostInfo_endElement(o, name, value, connection) ==
    Obj(o.cls, SetAttr(o.attrs, name, Str(value)))

\* cls(connection)
New(cls, connection) ==
    CASE cls = "UserInfo" -> UserInfo_init(connection)
      [] cls = "ProjectInfo" -> ProjectInfo_init(connection)
      [] cls = "HostInfo" -> HostInfo_init(connection)

\* obj.endElement(name, value, connection)
EndElement(o, name, value, connection) ==
    CASE o.cls = "UserInfo" -> UserInfo_endElement(o, name, value, connection)
      [] o.cls = "ProjectInfo" -> ProjectInfo_endElement(o, name, value, connection)
      [] o.cls = "HostInfo" -> HostInfo_endElement(o, name, value, connection)

(* --------------------------- query transport -------------------------- *)

Failure == [kind |-> "failure"]
Doc(events) == [kind |-> "doc", events |-> events]
ListDoc(children) == [kind |-> "list", children |-> children]
Status(out) == [kind |-> "status", out |-> out]

\* boto.connect_ec2(...): the connection the keyword arguments describe
connect_ec2(aws_access_key_id, aws_secret_access_key, is_secure, region, port, path) ==
    [aws_access_key_id |-> aws_access_key_id,
     aws_secret_access_key |-> aws_secret_access_key,
     is_secure |-> is_secure, region |-> region, port |-> port, path |-> path,
     APIVersion |-> None]

\* RegionInfo(None, name, endpoint)
RegionInfo(name, endpoint) == [name |-> name, endpoint |-> endpoint]

\* one request of the invocation st on the admin connection
make_request(st, action, params) ==
    [st EXCEPT !.sent = Append(@, [conn |-> st.self.apiconn, action |-> action,
                                  params |-> params])]

RECURSIVE decode_single(_, _, _)
decode_single(o, events, connection) ==
    IF events = << >> THEN o
    ELSE decode_single(EndElement(o, Head(events).name, Head(events).value, connection),
                       Tail(events), connection)

RECURSIVE decode_list(_, _, _, _)
decode_list(children, marker, connection, acc) ==
    IF children = << >> THEN acc
    ELSE LET c == Head(children) IN
         IF c.tag = marker[1]
         THEN decode_list(Tail(children), marker, connection,
                  Append(acc, decode_single(New(marker[2], connection), c.body,
                                            connection)))
         ELSE decode_list(Tail(children), marker, connection, acc)

get_object(st, action, params, cls, rp) ==
    LET st1 == make_request(st, action, params)
        conn == ConnV(st.self.apiconn)
    IN  IF rp.kind = "failure"
        THEN [st |-> st1, out |-> Raise("TransportFailureKind")]
        ELSE [st |-> st1,
              out |-> Return(decode_single(New(cls, conn), rp.events, conn))]

get_list(st, action, params, marker, rp) ==
    LET st1 == make_request(st, action, params)
        conn == ConnV(st.self.apiconn)
    IN  IF rp.kind = "failure"
        THEN [st |-> st1, out |-> Raise("TransportFailureKind")]
        ELSE [st |-> st1,
              out |-> Return(List(decode_list(rp.children, marker, conn, << >>)))]

\* the status the library decodes is its own answer: a boolean or an error
get_status(st, action, params, rp) ==
    LET st1 == make_request(st, action, params)
    IN  IF rp.kind = "failure"
        THEN [st |-> st1, out |-> Raise("TransportFailureKind")]
        ELSE [st |-> st1, out |-> rp.out]

(* --------------------------- NovaAdminClient -------------------------- *)

NovaAdminClient_init(clc_ip, region, access_key, secret_key) ==
    [clc_ip |-> clc_ip, region |-> region, access |-> access_key,
     secret |-> secret_key,
     apiconn |-> [connect_ec2(access_key, secret_key, FALSE,
                              RegionInfo(region, clc_ip), Port, "/services/Admin")
                  EXCEPT !.APIVersion = Str(<<"n","o","v","a">>)]]

\* mutant: the marker is not the tag of the items
get_users_wrong_marker(st, rp) ==
    get_list(st, "DescribeUsers", << >>, <<"user", "UserInfo">>, rp)

get_users(st, rp) ==
    get_list(st, "DescribeUsers", << >>, <<"item", "UserInfo">>, rp)

\* mutant: the test is `if user.username:`
get_user_truthy(st, name, rp) ==
    LET r == get_object(st, "DescribeUser", [Name |-> name], "UserInfo", rp)
    IN  IF r.out.kind = "raise" THEN r
        ELSE IF r.out.val.attrs["username"] \notin {None, Str(<< >>)} THEN r
        ELSE [st |-> r.st, out |-> Return(None)]

get_user(st, name, rp) ==
    LET r == get_object(st, "DescribeUser", [Name |-> name], "UserInfo", rp)
    IN  IF r.out.kind = "raise" THEN r
        ELSE IF r.out.val.attrs["username"] # None THEN r
        ELSE [st |-> r.st, out |-> Return(None)]

\* mutant: a failed lookup is tried again
has_user_retries(st, username, rp) ==
    LET r == get_user(st, username, rp)
        q == IF r.out.kind = "raise" THEN get_user(r.st, username, rp) ELSE r
    IN  IF q.out.kind = "raise" THEN q
        ELSE [st |-> q.st, out |-> Return(Bool(q.out.val # None))]

has_user(st, username, rp) ==
    LET r == get_user(st, username, rp)
    IN  IF r.out.kind = "raise" THEN r
        ELSE [st |-> r.st, out |-> Return(Bool(r.out.val # None))]

\* mutant: the client takes over the credentials of the user
connection_for_rebinds(st, username, rp) ==
    LET r == get_user(st, username, rp)
    IN  IF r.out.kind = "raise" THEN r
        ELSE LET user == r.out.val IN
             IF user = None
                \/ "accesskey" \notin DOMAIN user.attrs
                \/ "secretkey" \notin DOMAIN user.attrs
             THEN [st |-> r.st, out |-> Raise("AttributeError")]
             ELSE LET c == connect_ec2(user.attrs["accesskey"], user.attrs["secretkey"],
                                       FALSE,
                                       RegionInfo(r.st.self.region, r.st.self.clc_ip),
                                       Port, "/services/Cloud")
                  IN  [st |-> [r.st EXCEPT !.made = Append(@, c),
                                           !.self.access = user.attrs["accesskey"],
                                           !.self.secret = user.attrs["secretkey"]],
                       out |-> Return(ConnV(c))]

\* mutant: an unresolved user falls back to the admin credentials
connection_for_fallback(st, username, rp) ==
    LET r == get_user(st, username, rp)
    IN  IF r.out.kind = "raise" THEN r
        ELSE LET user == r.out.val
                 known == /\ user # None
                          /\ "accesskey" \in DOMAIN user.attrs
                          /\ "secretkey" \in DOMAIN user.attrs
                 c == connect_ec2(IF known THEN user.attrs["accesskey"]
                                  ELSE r.st.self.access,
                                  IF known THEN user.attrs["secretkey"]
                                  ELSE r.st.self.secret,
                                  FALSE,
                                  RegionInfo(r.st.self.region, r.st.self.clc_ip),
                                  Port, "/services/Cloud")
             IN  [st |-> [r.st EXCEPT !.made = Append(@, c)],
                  out |-> Return(ConnV(c))]

connection_for(st, username, rp) ==
    LET r == get_user(st, username, rp)
    IN  IF r.out.kind = "raise" THEN r
        ELSE LET user == r.out.val IN
             IF user = None
                \/ "accesskey" \notin DOMAIN user.attrs
                \/ "secretkey" \notin DOMAIN user.attrs
             THEN [st |-> r.st, out |-> Raise("AttributeError")]
             ELSE LET c == connect_ec2(user.attrs["accesskey"], user.attrs["secretkey"],
                                       FALSE,
                                       RegionInfo(r.st.self.region, r.st.self.clc_ip),
                                       Port, "/services/Cloud")
                  IN  [st |-> [r.st EXCEPT !.made = Append(@, c)],
                       out |-> Return(ConnV(c))]

create_user(st, username, rp) ==
    get_object(st, "RegisterUser", [Name |-> username], "UserInfo", rp)

delete_user(st, username, rp) ==
    get_object(st, "DeregisterUser", [Name |-> username], "UserInfo", rp)

modify_user_role(st, user, role, project, operation, rp) ==
    get_status(st, "ModifyUserRole",
               [User |-> user, Role |-> role, Project |-> project,
                Operation |-> operation], rp)

add_user_role(st, user, role, project, rp) ==
    modify_user_role(st, user, role, project, Str(<<"a","d","d">>), rp)

\* mutant: the operation is the one of add_user_role
remove_user_role_adds(st, user, role, project, rp) ==
    modify_user_role(st, user, role, project, Str(<<"a","d","d">>), rp)

remove_user_role(st, user, role, project, rp) ==
    modify_user_role(st, user, role, project, Str(<<"r","e","m","o","v","e">>), rp)

get_projects(st, rp) ==
    get_list(st, "DescribeProjects", << >>, <<"item", "ProjectInfo">>, rp)

\* mutant: the record is returned unconditionally
get_project_always(st, name, rp) ==
    get_object(st, "DescribeProject", [Name |-> name], "ProjectInfo", rp)

get_project(st, name, rp) ==
    LET r == get_object(st, "DescribeProject", [Name |-> name], "ProjectInfo", rp)
    IN  IF r.out.kind = "raise" THEN r
        ELSE IF r.out.val.attrs["projectname"] # None THEN r
        ELSE [st |-> r.st, out |-> Return(None)]

create_project(st, projectname, manager_user, description, member_users, rp) ==
    get_object(st, "RegisterProject",
               [Name |-> projectname, ManagerUser |-> manager_user,
                Description |-> description, MemberUsers |-> member_users],
               "ProjectInfo", rp)

delete_project(st, projectname, rp) ==
    get_object(st, "DeregisterProject", [Name |-> projectname], "ProjectInfo", rp)

modify_project_user(st, user, project, operation, rp) ==
    get_status(st, "ModifyProjectUser",
               [User |-> user, Project |-> project, Operation |-> operation], rp)

get_zip(st, username, rp) ==
    LET r == get_object(st, "GenerateX509ForUser", [Name |-> username], "UserInfo", rp)
    IN  IF r.out.kind = "raise" THEN r
        ELSE IF "file" \notin DOMAIN r.out.val.attrs
        THEN [st |-> r.st, out |-> Raise("AttributeError")]
        ELSE [st |-> r.st, out |-> Return(r.out.val.attrs["file"])]

get_hosts(st, rp) ==
    get_list(st, "DescribeHosts", << >>, <<"item", "HostInfo">>, rp)

(* ------------------------------- inputs ------------------------------- *)

\* what the caller passes
Names == {Str(<<"a","l">>), Str(<<"b","o">>)}
Roles == {Str(<<"d","e","v">>)}
Projects == {None, Str(<<"p","1">>)}
Operations == {Str(<<"a","d","d">>), Str(<<"r","e","m","o","v","e">>)}
AccessKeys == {Str(<<"a","d","m","i","n">>), Str(<<"r","o","o","t">>)}

\* what the service answers
Tags == {"username", "accesskey", "secretkey", "file", "projectname", "connection"}

\* the texts the model lets an element of each tag carry
TextsOf(tag) ==
    CASE tag \in {"username", "projectname"} -> {<< >>, <<"a","l">>}
      [] tag = "accesskey" -> {<<"a","k">>}
      [] tag = "secretkey" -> {<<"s","k">>}
      [] tag = "connection" -> {<<"a","l">>}
      [] tag = "file" -> {<< >>, <<"Y","W","w","=">>, <<"Y","W","x","p">>}

Event(name, value) == [name |-> name, value |-> value]

Events == UNION {{Event(n, v) : v \in TextsOf(n)} : n \in Tags}

SeqsUpTo(S, n) == UNION {[1..k -> S] : k \in 0..n}

Docs == SeqsUpTo(Events, MaxEvents)

ItemEvents ==
    {Event("username", <<"a","l">>), Event("accesskey", <<"a","k">>),
     Event("projectname", <<"a","l">>), Event("connection", <<"a","l">>)}

ItemBodies ==
    {<< >>} \cup {<<e>> : e \in ItemEvents}
            \cup {<<p[1], p[2]>> : p \in {q \in ItemEvents \X ItemEvents : q[1] # q[2]}}

Element(tag, body) == [tag |-> tag, body |-> body]

Children ==
    {Element("item", b) : b \in ItemBodies}
        \cup {Element("requestId", << >>),
              Element("requestId", <<Event("username", <<"a","l">>)>>)}

SingleReplies == {Failure} \cup {Doc(d) : d \in Docs}
ListReplies == {Failure} \cup {ListDoc(c) : c \in SeqsUpTo(Children, MaxItems)}
StatusReplies ==
    {Failure} \cup {Status(o) : o \in {Return(Bool(TRUE)), Return(Bool(FALSE)),
                                        Raise("MissingStatusKind")}}

(* ---------------------------- state machine --------------------------- *)

NoCall == [op |-> "none", args |-> << >>]
NoReply == [kind |-> "none"]
NoResult == [kind |-> "none"]

\* the invocation as it starts: nothing sent, no connection made
Start == [self |-> self, sent |-> << >>, made |-> << >>]

Init ==
    /\ \E k \in AccessKeys :
          self = NovaAdminClient_init(Str(<<"1","2","7",".","0",".","0",".","1">>),
                                      Str(<<"n","o","v","a">>), k, k)
    /\ pc = "idle"
    /\ call = NoCall
    /\ reply = NoReply
    /\ sent = << >>
    /\ made = << >>
    /\ result = NoResult

\* the operation op(args), answered rp by the service, ran to its end r
Invoke(op, args, rp, r) ==
    /\ pc' = "returned"
    /\ call' = [op |-> op, args |-> args]
    /\ reply' = rp
    /\ self' = r.st.self
    /\ sent' = r.st.sent
    /\ made' = r.st.made
    /\ result' = r.out

ConnectionFor ==
    /\ pc = "idle"
    /\ \E n \in Names, rp \in SingleReplies :
           Invoke("connection_for", <<n>>, rp, connection_for(Start, n, rp))

GetUsers ==
    /\ pc = "idle"
    /\ \E rp \in ListReplies : Invoke("get_users", << >>, rp, get_users(Start, rp))

GetUser ==
    /\ pc = "idle"
    /\ \E n \in Names, rp \in SingleReplies :
           Invoke("get_user", <<n>>, rp, get_user(Start, n, rp))

HasUser ==
    /\ pc = "idle"
    /\ \E n \in Names, rp \in SingleReplies :
           Invoke("has_user", <<n>>, rp, has_user(Start, n, rp))

CreateUser ==
    /\ pc = "idle"
    /\ \E n \in Names, rp \in SingleReplies :
           Invoke("create_user", <<n>>, rp, create_user(Start, n, rp))

DeleteUser ==
    /\ pc = "idle"
    /\ \E n \in Names, rp \in SingleReplies :
           Invoke("delete_user", <<n>>, rp, delete_user(Start, n, rp))

AddUserRole ==
    /\ pc = "idle"
    /\ \E u \in Names, ro \in Roles, p \in Projects, rp \in StatusReplies :
           Invoke("add_user_role", <<u, ro, p>>, rp, add_user_role(Start, u, ro, p, rp))

RemoveUserRole ==
    /\ pc = "idle"
    /\ \E u \in Names, ro \in Roles, p \in Projects, rp \in StatusReplies :
           Invoke("remove_user_role", <<u, ro, p>>, rp,
                  remove_user_role(Start, u, ro, p, rp))

ModifyUserRole ==
    /\ pc = "idle"
    /\ \E u \in Names, ro \in Roles, p \in Projects, o \in Operations,
          rp \in StatusReplies :
           Invoke("modify_user_role", <<u, ro, p, o>>, rp,
                  modify_user_role(Start, u, ro, p, o, rp))

GetProjects ==
    /\ pc = "idle"
    /\ \E rp \in ListReplies : Invoke("get_projects", << >>, rp, get_projects(Start, rp))

GetProject ==
    /\ pc = "idle"
    /\ \E n \in Names, rp \in SingleReplies :
           Invoke("get_project", <<n>>, rp, get_project(Start, n, rp))

CreateProject ==
    /\ pc = "idle"
    /\ \E n \in Names, m \in Names, d \in {None, Str(<<"a","l">>)},
          rp \in SingleReplies :
           Invoke("create_project", <<n, m, d, None>>, rp,
                  create_project(Start, n, m, d, None, rp))

DeleteProject ==
    /\ pc = "idle"
    /\ \E n \in Names, rp \in SingleReplies :
           Invoke("delete_project", <<n>>, rp, delete_project(Start, n, rp))

ModifyProjectUser ==
    /\ pc = "idle"
    /\ \E u \in Names, p \in Projects \ {None}, o \in Operations, rp \in StatusReplies :
           Invoke("modify_project_user", <<u, p, o>>, rp,
                  modify_project_user(Start, u, p, o, rp))

GetZip ==
    /\ pc = "idle"
    /\ \E n \in Names, rp \in SingleReplies :
           Invoke("get_zip", <<n>>, rp, get_zip(Start, n, rp))

GetHosts ==
    /\ pc = "idle"
    /\ \E rp \in ListReplies : Invoke("get_hosts", << >>, rp, get_hosts(Start, rp))

\* the caller has the result; the client is ready for the next invocation
CallerProceeds ==
    /\ pc = "returned"
    /\ pc' = "idle"
    /\ call' = NoCall
    /\ reply' = NoReply
    /\ sent' = << >>
    /\ made' = << >>
    /\ result' = NoResult
    /\ UNCHANGED self

Next ==
    \/ ConnectionFor
    \/ GetUsers
    \/ GetUser
    \/ HasUser
    \/ CreateUser
    \/ DeleteUser
    \/ AddUserRole
    \/ RemoveUserRole
    \/ ModifyUserRole
    \/ GetProjects
    \/ GetProject
    \/ CreateProject
    \/ DeleteProject
    \/ ModifyProjectUser
    \/ GetZip
    \/ GetHosts
    \/ CallerProceeds

Spec == Init /\ [][Next]_vars

(* ------------------------ what a decode must give --------------------- *)

Returned(op) == pc = "returned" /\ call.op = op

Has(events, tag) == \E i \in 1..Len(events) : events[i].name = tag

TagsOf(events) == {events[i].name : i \in 1..Len(events)}

\* the text of the last element named tag
LastText(events, tag) ==
    LET i == CHOOSE k \in 1..Len(events) :
                 /\ events[k].name = tag
                 /\ \A j \in (k + 1)..Len(events) : events[j].name # tag
    IN  events[i].value

\* base64 of "", "al" and "ali"
B64Table(text) ==
    CASE text = << >> -> << >>
      [] text = <<"Y","W","w","=">> -> <<97, 108>>
      [] text = <<"Y","W","x","p">> -> <<97, 108, 105>>

\* the attributes of a UserInfo after the events: the mapped tags only
ExpectedUser(events, conn) ==
    [a \in {"connection", "username", "endpoint"}
             \cup (TagsOf(events) \cap {"file", "accesskey", "secretkey"}) |->
        IF a = "connection" THEN conn
        ELSE IF a = "endpoint" THEN None
        ELSE IF ~Has(events, a) THEN None
        ELSE IF a = "file" THEN Bytes(B64Table(LastText(events, a)))
        ELSE Str(LastText(events, a))]

\* the attributes of a ProjectInfo or HostInfo after the events: every tag
ExpectedDynamic(fields, events, conn) ==
    [a \in fields \cup TagsOf(events) |->
        IF Has(events, a) THEN Str(LastText(events, a))
        ELSE IF a = "connection" THEN conn
        ELSE None]

Expected(cls, events, conn) ==
    CASE cls = "UserInfo" -> Obj(cls, ExpectedUser(events, conn))
      [] cls = "ProjectInfo" ->
            Obj(cls, ExpectedDynamic({"connection", "projectname", "endpoint"},
                                     events, conn))
      [] cls = "HostInfo" ->
            Obj(cls, ExpectedDynamic({"connection", "hostname"}, events, conn))

AdminConn == ConnV(self.apiconn)

\* the one request an invocation makes
Request(action, params) ==
    [conn |-> self.apiconn, action |-> action, params |-> params]

(* -------------------------------- C1 ---------------------------------- *)

\* the response of get_user has username elements, all with empty text
EmptyUsernameCase ==
    /\ Returned("get_user")
    /\ reply.kind = "doc"
    /\ Has(reply.events, "username")
    /\ \A i \in 1..Len(reply.events) :
          reply.events[i].name = "username" => reply.events[i].value = << >>

\* C1 as stated: get_user on a response whose username element has empty text
\* returns None.
C1_EmptyUsernameIsAbsent == EmptyUsernameCase => result = Return(None)

\* C1 amended: get_user on a response whose username element has empty text
\* returns the UserInfo, whose username is the empty string.
C1_EmptyUsernameIsReturned ==
    EmptyUsernameCase =>
        /\ result.kind = "return"
        /\ result.val.t = "obj"
        /\ result.val.cls = "UserInfo"
        /\ result.val.attrs["username"] = Str(<< >>)

C1_Witness == EmptyUsernameCase /\ Len(reply.events) = 2

(* -------------------------------- C2 ---------------------------------- *)

\* C2: on a successful response get_user (get_project) returns the decoded
\* record if and only if the response has a username (projectname) element,
\* and None otherwise; it raises nothing.
C2_RecordIffIdentified ==
    /\ (Returned("get_user") /\ reply.kind = "doc") =>
          /\ result.kind = "return"
          /\ Has(reply.events, "username") =>
                result.val = Expected("UserInfo", reply.events, AdminConn)
          /\ ~Has(reply.events, "username") => result.val = None
    /\ (Returned("get_project") /\ reply.kind = "doc") =>
          /\ result.kind = "return"
          /\ Has(reply.events, "projectname") =>
                result.val = Expected("ProjectInfo", reply.events, AdminConn)
          /\ ~Has(reply.events, "projectname") => result.val = None

C2_Witness ==
    /\ Returned("get_project")
    /\ reply.kind = "doc"
    /\ Len(reply.events) = 2
    /\ ~Has(reply.events, "projectname")
    /\ result = Return(None)

(* -------------------------------- C3 ---------------------------------- *)

\* connection_for got a response in which get_user finds no user
UnknownUserCase ==
    /\ Returned("connection_for")
    /\ reply.kind = "doc"
    /\ ~Has(reply.events, "username")

UserDecodedCase ==
    /\ Returned("create_user") \/ Returned("delete_user")
    /\ reply.kind = "doc"

\* an operation that returns the decoded ProjectInfo as it is got a response
ProjectDecodedCase ==
    /\ Returned("create_project") \/ Returned("delete_project")
    /\ reply.kind = "doc"

ListClass(op) ==
    CASE op = "get_users" -> "UserInfo"
      [] op = "get_projects" -> "ProjectInfo"
      [] op = "get_hosts" -> "HostInfo"

ListCase ==
    /\ pc = "returned"
    /\ call.op \in {"get_users", "get_projects", "get_hosts"}
    /\ reply.kind = "list"

ItemsOf(children) == SelectSeq(children, LAMBDA c : c.tag = "item")

\* C6: a list operation returns one record for each item element of the
\* response, in document order, each holding what its own item's elements set
\* on a new instance and nothing of another item; no item, an empty list.
C6_OneRecordPerItem ==
    ListCase =>
        LET items == ItemsOf(reply.children) IN
        /\ result.kind = "return"
        /\ result.val.t = "list"
        /\ Len(result.val.items) = Len(items)
        /\ \A i \in 1..Len(items) :
              result.val.items[i] =
                  Expected(ListClass(call.op), items[i].body, AdminConn)

C6_Witness ==
    /\ ListCase
    /\ call.op = "get_projects"
    /\ Len(reply.children) = 2
    /\ Len(result.val.items) = 2
    /\ "accesskey" \in DOMAIN result.val.items[1].attrs
    /\ "accesskey" \notin DOMAIN result.val.items[2].attrs

(* -------------------------------- C7 ---------------------------------- *)

\* what get_status gives for the reply
StatusOutcome ==
    IF reply.kind = "failure" THEN Raise("TransportFailureKind") ELSE reply.out

\* C7: add_user_role and remove_user_role make the single ModifyUserRole
\* status request with the caller's User, Role and Project and Operation add
\* (remove), and return its result as it is.
C7_RoleShortcuts ==
    /\ Returned("add_user_role") =>
          /\ sent = <<Request("ModifyUserRole",
                              [User |-> call.args[1], Role |-> call.args[2],
                               Project |-> call.args[3],
                               Operation |-> Str(<<"a","d","d">>)])>>
          /\ result = StatusOutcome
    /\ Returned("remove_user_role") =>
          /\ sent = <<Request("ModifyUserRole",
                              [User |-> call.args[1], Role |-> call.args[2],
                               Project |-> call.args[3],
                               Operation |-> Str(<<"r","e","m","o","v","e">>)])>>
          /\ result = StatusOutcome

C7_Witness ==
    /\ Returned("remove_user_role")
    /\ call.args[3] # None
    /\ result = Return(Bool(FALSE))

(* -------------------------------- C8 ---------------------------------- *)

\* C8: every operation makes exactly one request, on the admin connection,
\* and a transport failure is what the caller gets.
C8_OneRequestPerCall ==
    pc = "returned" =>
        /\ Len(sent) = 1
        /\ sent[1].conn = self.apiconn
        /\ sent[1].conn.path = "/services/Admin"
        /\ reply.kind = "failure" => result = Raise("TransportFailureKind")

C8_Witness == Returned("has_user") /\ reply.kind = "failure"

(* -------------------------------- C9 ---------------------------------- *)

\* C9: no operation changes the configuration __init__ set: clc_ip, region,
\* access, secret and apiconn.
C9_ConfigurationFixed == [][self' = self]_vars

C9_Witness ==
    /\ Returned("connection_for")
    /\ result.kind = "return"
    /\ Len(made) = 1
    /\ made[1].aws_access_key_id # self.access

(* -------------------------------- C10 --------------------------------- *)

\* the records the last operation returned
ReturnedRecords ==
    IF pc # "returned" \/ result.kind # "return" THEN {}
    ELSE IF result.val.t = "obj" THEN {result.val}
    ELSE IF result.val.t = "list"
    THEN {result.val.items[i] : i \in 1..Len(result.val.items)}
    ELSE {}

\* C10: the connection of every decoded record is the connection it was
\* constructed with, whatever the tags of the response.
C10_BackReferenceKept ==
    \A o \in ReturnedRecords : o.attrs["connection"] = AdminConn

====
